---------------------------- MODULE Spec2Model ----------------------------
(***************************************************************************)
(* A state-machine model of GinzburgLandauSimulation (src/src/main.ts).    *)
(*                                                                         *)
(* Numbers.  The program computes in IEEE floating point.  The model uses  *)
(* fixed-point numbers: a real r is the integer nearest to r * Scale, and  *)
(* every product, quotient and library function (sqrt, tanh, atan2, cos,   *)
(* sin) rounds its result to the nearest such integer, where the program   *)
(* rounds to the nearest float.  Pixel coordinates, grid sizes, counters   *)
(* and colour bytes are plain integers.                                    *)
(*                                                                         *)
(* Objects.  The four Float32Arrays are objects of a heap; u, v, uNext and *)
(* vNext hold references (heap addresses), so that exchanging two arrays   *)
(* and copying one into the other are different things.                    *)
(*                                                                         *)
(* Control.  JavaScript runs one handler at a time.  pc is the position of *)
(* the frame callback animate(); every other handler runs only while       *)
(* animate() is not running (pc = "idle").  animate() runs again only if   *)
(* its previous run reached requestAnimationFrame (frameRequested).        *)
(*                                                                         *)
(* Exceptions.  Two calls of the canvas API throw for a container with a   *)
(* zero side: createImageData in setupCanvas and drawImage in draw.  The   *)
(* handler stops at the call and keeps the assignments it made before it.  *)
(***************************************************************************)
EXTENDS Integers, Sequences, FiniteSets

\* ------------------------------------------------------------------------
\* Bounds of the model
\* ------------------------------------------------------------------------

\* At most this many UI events (handler runs other than animate) per run.
MaxEvents == 2

\* At most this many runs of the frame callback animate() per run.
MaxTicks == 2

\* The speed slider's largest value.
MaxSpeed == 2

\* UI events in a run of the pointer handlers alone (PointerSpec)
MaxDragEvents == 4

\* ------------------------------------------------------------------------
\* Fixed-point arithmetic
\* ------------------------------------------------------------------------

\* The resolution of a number held in a Float32Array or a local: one unit
\* is 1/Scale.
Scale == 1000

Abs(a) == IF a < 0 THEN -a ELSE a

Min(a, b) == IF a < b THEN a ELSE b

Max(a, b) == IF a > b THEN a ELSE b

\* n / d rounded to the nearest integer (d > 0), halves away from zero.
RoundDivNat(n, d) == IF 2 * (n % d) >= d THEN (n \div d) + 1 ELSE n \div d

RoundDiv(n, d) == IF n >= 0 THEN RoundDivNat(n, d) ELSE -RoundDivNat(-n, d)

\* a * b and a / b of two fixed-point numbers.
FMul(a, b) == RoundDiv(a * b, Scale)

FDiv(a, b) == IF b > 0 THEN RoundDiv(a * Scale, b) ELSE -RoundDiv(a * Scale, -b)

\* The fixed-point number of an integer.
Fix(n) == n * Scale

\* JavaScript's a % b on numbers: the result has the sign of the dividend.
JsMod(a, b) == IF a >= 0 THEN a % b ELSE -((-a) % b)

\* Math.ceil(a / b) for integers a >= 0, b > 0.
CeilDiv(a, b) == (a + b - 1) \div b

\* Math.PI and its multiples, in units.
PI == 3142

HALF_PI == 1571

QUARTER_PI == 785

TWO_PI == 6284

\* The integer square root of n >= 0 by Heron's iteration from a start
\* r >= sqrt(n), r > 0: the largest r with r * r <= n.
RECURSIVE ISqrtFrom(_, _)
ISqrtFrom(n, r) ==
    IF n = 0 THEN 0
    ELSE LET next == (r + n \div r) \div 2
         IN  IF next >= r THEN r ELSE ISqrtFrom(n, next)

\* Math.sqrt of a sum of products of two fixed-point numbers, as in
\* Math.sqrt(dx1 * dx1 + dy1 * dy1): n is the exact sum, in units of
\* 1 / Scale^2, and the root is rounded to the nearest unit.  The sum is not
\* rounded before the root is taken.
SqrtOfSum(n) ==
    LET r == ISqrtFrom(n, (n \div Scale + Scale) \div 2 + 1)
    IN  IF n - r * r > r THEN r + 1 ELSE r

\* Math.sqrt of a fixed-point number a >= 0, rounded to the nearest unit.
Sqrt(a) == SqrtOfSum(a * Scale)

\* Math.tanh on [0, 1] (the only arguments imprintSingleVortex passes): the
\* fourth convergent of Lambert's continued fraction,
\* x (945 + 105 x^2 + x^4) / (945 + 420 x^2 + 15 x^4), exact to 1e-6 there.
Tanh(x) ==
    LET x2 == FMul(x, x)
        x4 == FMul(x2, x2)
    IN  RoundDiv(x * (945 * Scale + 105 * x2 + x4),
                 945 * Scale + 420 * x2 + 15 * x4)

\* sin and cos on [0, pi/4] by their Taylor polynomials (Horner form).
SinT(x) ==
    LET x2 == FMul(x, x)
        a == Scale - RoundDiv(x2, 42)
        b == Scale - RoundDiv(x2 * a, 20 * Scale)
        c == Scale - RoundDiv(x2 * b, 6 * Scale)
    IN  FMul(x, c)

CosT(x) ==
    LET x2 == FMul(x, x)
        a == Scale - RoundDiv(x2, 30)
        b == Scale - RoundDiv(x2 * a, 12 * Scale)
    IN  Scale - RoundDiv(x2 * b, 2 * Scale)

\* sin and cos on [0, pi/2].
SinQ(x) == IF x <= QUARTER_PI THEN SinT(x) ELSE CosT(HALF_PI - x)

CosQ(x) == IF x <= QUARTER_PI THEN CosT(x) ELSE SinT(HALF_PI - x)

\* Math.sin and Math.cos of any angle (in units of radians / Scale).
Sin(theta) ==
    LET r == theta % TWO_PI
    IN  IF r <= HALF_PI THEN SinQ(r)
        ELSE IF r <= PI THEN SinQ(PI - r)
        ELSE IF r <= PI + HALF_PI THEN -SinQ(r - PI)
        ELSE -SinQ(TWO_PI - r)

Cos(theta) ==
    LET r == theta % TWO_PI
    IN  IF r <= HALF_PI THEN CosQ(r)
        ELSE IF r <= PI THEN -CosQ(PI - r)
        ELSE IF r <= PI + HALF_PI THEN -CosQ(r - PI)
        ELSE CosQ(TWO_PI - r)

\* tan(pi/8), in units.
TAN_PI_8 == 414

\* atan(t) for 0 <= t <= tan(pi/8): t (15 + 4 t^2) / (15 + 9 t^2).
AtanSmall(t) ==
    LET tt == FMul(t, t)
    IN  RoundDiv(t * (15 * Scale + 4 * tt), 15 * Scale + 9 * tt)

\* atan(n / d) for 0 <= n <= d, d > 0: a value in [0, pi/4].
AtanRatio(n, d) ==
    LET t == RoundDiv(n * Scale, d)
    IN  IF t > TAN_PI_8
        THEN QUARTER_PI - AtanSmall(RoundDiv((Scale - t) * Scale, Scale + t))
        ELSE AtanSmall(t)

\* Math.atan2(y, x), in (-pi, pi]; atan2(0, 0) = 0 and atan2(0, x < 0) = pi.
Atan2(y, x) ==
    IF x = 0 /\ y = 0 THEN 0
    ELSE LET ax == Abs(x)
             ay == Abs(y)
             a0 == AtanRatio(Min(ax, ay), Max(ax, ay))
             a1 == IF ay > ax THEN HALF_PI - a0 ELSE a0
             a2 == IF x < 0 THEN PI - a1 ELSE a1
         IN  IF y < 0 THEN -a2 ELSE a2

\* ------------------------------------------------------------------------
\* The environment: what the browser hands to the program
\* ------------------------------------------------------------------------

\* Math.random() is a stream of numbers in [0, 1).  A handler that draws
\* from it picks one of the streams below; Random(seed, k) is the k-th
\* number (k = 0, 1, ...) of stream seed, in units.
RandSeeds == {0, 1}

Random(seed, k) == (137 + 389 * seed + 613 * k + 271 * seed * k) % Scale

\* container.clientWidth and clientHeight (pixels) as the window is resized;
\* a container that is hidden or collapsed has size 0 x 0.
ContainerSizes == {<<40, 40>>, <<40, 24>>, <<0, 0>>}

\* The container's size when the page loads.  In a container with a zero
\* side the constructor's setupCanvas throws (createImageData): no object is
\* constructed, no listener is registered and no frame is ever requested.
\* The program that runs is one constructed in a container with no zero side.
InitialContainerSizes == {size \in ContainerSizes : size[1] > 0 /\ size[2] > 0}

\* Pointer positions relative to the canvas (pixels), as returned by
\* getCanvasCoordinates; NoCoords is its null.
NoCoords == <<>>

PointerPositions == {<<0, 0>>, <<39, 5>>}

\* The resolution slider's values tried: cell sizes 24, 18 and 12.
ResolutionValues == {1, 2, 3}

\* The temperature slider's values (percent).
TempValues == {0, 100}

\* ------------------------------------------------------------------------
\* State
\* ------------------------------------------------------------------------

VARIABLES
    pc,                       \* position of animate(): "ctor", "idle", "loop"
    loopI,                    \* animate's loop variable i
    frameRequested,           \* a requestAnimationFrame callback is pending
    canvasWidth, canvasHeight,
    gridSizeX, gridSizeY, cellWidth, cellHeight, targetCellSize,
    smoothRendering, hasShownEpilepsyWarning,
    heap,                     \* address -> contents of a Float32Array
    u, v, uNext, vNext,       \* addresses
    frameCount, isPaused, simulationSpeed, noiseLevel,
    isMouseDownOnCanvas, lastSpawnPos, nextWinding, isDraggingPanel,
    offscreenImageData,       \* the ImageData's data bytes
    display,                  \* what drawImage last put on the main canvas
    modalHidden,              \* infoModal has class "hidden"
    alerts,                   \* number of alert() dialogs shown
    last,                     \* the handler that ran last and the calls it made
    imprints,                 \* the imprintSingleVortex calls so far: <<cx, cy, winding>>
    nEvents, tickCount,       \* numbers of UI events and of animate() runs
    pointerAt,                \* coordinates of the last pointer event on the canvas
    input,                    \* the field the run started from
    probe                     \* a cell value on its way through draw's hue computation

vars == <<pc, loopI, frameRequested, canvasWidth, canvasHeight, gridSizeX, gridSizeY,
          cellWidth, cellHeight, targetCellSize, smoothRendering,
          hasShownEpilepsyWarning, heap, u, v, uNext, vNext, frameCount,
          isPaused, simulationSpeed, noiseLevel, isMouseDownOnCanvas,
          lastSpawnPos, nextWinding, isDraggingPanel, offscreenImageData,
          display, modalHidden, alerts, last, imprints, nEvents, tickCount,
          pointerAt, input, probe>>

\* number of imprintSingleVortex calls so far, and the last one's arguments
nImprints == Len(imprints)

lastImprint == imprints[Len(imprints)]

\* ------------------------------------------------------------------------
\* Arrays and the heap
\* ------------------------------------------------------------------------

\* new Float32Array(n): n zeros, indexed from 0.
NewArray(n) == [i \in 0 .. n - 1 |-> 0]

Length(a) == Cardinality(DOMAIN a)

\* Heap addresses.  Four arrays are live at any time; an allocation of four
\* takes the four addresses not in use, and the arrays dropped are freed.
Addresses == 1 .. 8

\* The k-th (k = 1..4) address not among the live ones.
FreshAddress(live, k) ==
    LET free == Addresses \ live
    IN  CHOOSE a \in free : Cardinality({b \in free : b < a}) = k - 1

\* physics constants (fields that are never assigned)
diffusion == 500

dt == 200

\* ------------------------------------------------------------------------
\* setupCanvas: grid geometry
\* ------------------------------------------------------------------------

\* safeCellSize = Math.max(2, targetCellSize)
SafeCellSize(target) == Max(2, target)

\* gridSizeX = Math.ceil(canvas.width / safeCellSize), likewise gridSizeY
GridSize(pixels, target) == CeilDiv(pixels, SafeCellSize(target))

\* The float NaN, written as a number that no computation of the model yields.
NaN == -999999999

\* cellWidth = canvas.width / gridSizeX, in units.  gridSizeX is 0 only when
\* canvas.width is 0, and 0 / 0 is NaN.
CellSize(pixels, cells) == IF cells = 0 THEN NaN ELSE RoundDiv(Fix(pixels), cells)

\* createImageData(w, h) throws an IndexSizeError when w or h is zero
CreateImageDataThrows(w, h) == w = 0 \/ h = 0

\* createImageData(w, h): 4 bytes per pixel, all zero
CreateImageData(w, h) == [i \in 0 .. 4 * w * h - 1 |-> 0]

\* the resolution slider's mapping from its value to targetCellSize
ResolutionMapping == <<24, 18, 12, 8, 4>>

\* mapping[val - 1] || 12
NewCellSize(val) ==
    IF val \in 1 .. Len(ResolutionMapping) THEN ResolutionMapping[val] ELSE 12

\* ------------------------------------------------------------------------
\* initializeGrid
\* ------------------------------------------------------------------------

\* angle = Math.random() * 2 * Math.PI; cell i takes draws 2i and 2i + 1
SeedAngle(seed, i) == FMul(Random(seed, 2 * i), TWO_PI)

\* SeedMag drawn from [0, 1)
SeedMag_UpToOne(seed, i) == Random(seed, 2 * i + 1)

\* mag = 0.1 + Math.random() * 0.1
SeedMag(seed, i) == 100 + FMul(Random(seed, 2 * i + 1), 100)

\* the values initializeGrid stores in cell i: this.u[i] = mag * Math.cos(angle)
\* and this.v[i] = mag * Math.sin(angle)
SeedCell(seed, i) ==
    <<FMul(SeedMag(seed, i), Cos(SeedAngle(seed, i))),
      FMul(SeedMag(seed, i), Sin(SeedAngle(seed, i)))>>

\* the number of cells of the largest grid: the largest container at the
\* smallest cell size of the resolution slider
LargestGrid ==
    LET counts == {GridSize(size[1], ResolutionMapping[k])
                   * GridSize(size[2], ResolutionMapping[k]) :
                       size \in ContainerSizes, k \in DOMAIN ResolutionMapping}
    IN  CHOOSE c \in counts : \A d \in counts : d <= c

\* SeedCell for every stream and every cell of a grid, computed once
SeedCells ==
    [seed \in RandSeeds |-> [i \in 0 .. LargestGrid - 1 |-> SeedCell(seed, i)]]

\* this.u[i] = mag * Math.cos(angle), for every i < this.u.length
SeedU(a, seed) == [i \in DOMAIN a |-> SeedCells[seed][i][1]]

\* this.v[i] = mag * Math.sin(angle)
SeedV(a, seed) == [i \in DOMAIN a |-> SeedCells[seed][i][2]]

\* ------------------------------------------------------------------------
\* imprintSingleVortex
\* ------------------------------------------------------------------------

\* x1 = (cx + w) % w: the centre wrapped onto the torus (c in units)
WrapCentre(c, n) == JsMod(c + Fix(n), Fix(n))

\* dx1 = x - x1; if (dx1 > w / 2) dx1 -= w; if (dx1 < -w / 2) dx1 += w
Displacement(x, c, n) ==
    LET d0 == Fix(x) - WrapCentre(c, n)
        d1 == IF 2 * d0 > Fix(n) THEN d0 - Fix(n) ELSE d0
    IN  IF 2 * d1 < -Fix(n) THEN d1 + Fix(n) ELSE d1

\* dist1 = Math.sqrt(dx1 * dx1 + dy1 * dy1)
Dist(dx, dy) == SqrtOfSum(dx * dx + dy * dy)

\* coreProfile = Math.min(1.0, dist1 / 4.0)
CoreProfile(dist) == Min(Scale, RoundDiv(dist, 4))

\* softProfile = 0.2 + 0.8 * Math.tanh(coreProfile)
SoftProfile(dist) == 200 + FMul(800, Tanh(CoreProfile(dist)))

\* deltaPhase = Math.atan2(dy1, dx1) * winding
DeltaPhase(dx, dy, winding) == Atan2(dy, dx) * winding

\* the cell (x, y) of the grid after imprintSingleVortex(cx, cy, winding):
\* (re, im) rotated by deltaPhase and scaled by softProfile
ImprintCell(re, im, x, y, cx, cy, winding, w, h) ==
    LET dx == Displacement(x, cx, w)
        dy == Displacement(y, cy, h)
        deltaPhase == DeltaPhase(dx, dy, winding)
        soft == SoftProfile(Dist(dx, dy))
        cosP == Cos(deltaPhase)
        sinP == Sin(deltaPhase)
        uNew == RoundDiv(re * cosP - im * sinP, Scale)
        vNew == RoundDiv(re * sinP + im * cosP, Scale)
    IN  <<FMul(uNew, soft), FMul(vNew, soft)>>

\* the cells after the loop over y < h, x < w (idx = y * w + x), as pairs
Imprinted(au, av, cx, cy, winding, w, h) ==
    [i \in DOMAIN au |->
        IF i < w * h
        THEN ImprintCell(au[i], av[i], i % w, i \div w, cx, cy, winding, w, h)
        ELSE <<au[i], av[i]>>]

\* this.u and this.v after imprintSingleVortex
ImprintU(au, av, cx, cy, winding, w, h) ==
    LET cells == Imprinted(au, av, cx, cy, winding, w, h)
    IN  [i \in DOMAIN au |-> cells[i][1]]

ImprintV(au, av, cx, cy, winding, w, h) ==
    LET cells == Imprinted(au, av, cx, cy, winding, w, h)
    IN  [i \in DOMAIN av |-> cells[i][2]]

\* ------------------------------------------------------------------------
\* updatePhysics
\* ------------------------------------------------------------------------

\* this.u[i] += (Math.random() - 0.5) * noiseScale, noiseScale = noiseLevel * 0.1;
\* cell i takes draw 2i + k (k = 0 for u, 1 for v)
Noise(level, seed, i, k) == FMul(Random(seed, 2 * i + k) - 500, FMul(level, 100))

\* the current array after the noise pass (if noiseLevel > 0), k as above
Noised(a, level, seed, k, size) ==
    IF level > 0
    THEN [i \in DOMAIN a |-> IF i < size THEN a[i] + Noise(level, seed, i, k) ELSE a[i]]
    ELSE a

\* indices of the four neighbours of (x, y) on the torus
\* LeftIndex clamped at the edge where it should wrap
LeftIndex_Clamped(x, y, w, h) == y * w + Max(x - 1, 0)

LeftIndex(x, y, w, h) == y * w + ((x - 1 + w) % w)

RightIndex(x, y, w, h) == y * w + ((x + 1) % w)

UpIndex(x, y, w, h) == ((y - 1 + h) % h) * w + x

DownIndex(x, y, w, h) == ((y + 1) % h) * w + x

\* Laplacian with the centre counted three times
Laplacian_ThreeCentres(a, x, y, w, h) ==
    a[LeftIndex(x, y, w, h)] + a[RightIndex(x, y, w, h)]
    + a[UpIndex(x, y, w, h)] + a[DownIndex(x, y, w, h)] - 3 * a[y * w + x]

\* laplacian = left + right + up + down - 4 * centre
Laplacian(a, x, y, w, h) ==
    a[LeftIndex(x, y, w, h)] + a[RightIndex(x, y, w, h)]
    + a[UpIndex(x, y, w, h)] + a[DownIndex(x, y, w, h)] - 4 * a[y * w + x]

\* reaction = 1 - (u * u + v * v)
Reaction(re, im) == Scale - RoundDiv(re * re + im * im, Scale)

\* u + dt * (diffusion * laplacian + u * reaction), for either component c
Euler(c, lap, reaction) ==
    c + FMul(dt, RoundDiv(diffusion * lap + c * reaction, Scale))

\* what the solver loop stores in uNext[i] and vNext[i], reading cu and cv
SolveU(cu, cv, i, w, h) ==
    Euler(cu[i], Laplacian(cu, i % w, i \div w, w, h), Reaction(cu[i], cv[i]))

SolveV(cu, cv, i, w, h) ==
    Euler(cv[i], Laplacian(cv, i % w, i \div w, w, h), Reaction(cu[i], cv[i]))

\* NextU with the stencil reading the array it writes (the next array)
\* where it should read the current one
NextU_ReadsNext(cu, cv, nu, w, h) ==
    [i \in DOMAIN nu |-> IF i < w * h THEN SolveU(nu, cv, i, w, h) ELSE nu[i]]

\* the next arrays after the solver loop over the current arrays cu, cv
NextU(cu, cv, nu, w, h) ==
    [i \in DOMAIN nu |-> IF i < w * h THEN SolveU(cu, cv, i, w, h) ELSE nu[i]]

NextV(cu, cv, nv, w, h) ==
    [i \in DOMAIN nv |-> IF i < w * h THEN SolveV(cu, cv, i, w, h) ELSE nv[i]]

\* ------------------------------------------------------------------------
\* draw
\* ------------------------------------------------------------------------

\* hue2rgb(p, q, t); t3 is 3 * t, so that thirds are exact
Hue2Rgb(p, q, t3) ==
    LET ta == IF t3 < 0 THEN t3 + 3 * Scale ELSE t3
        tb == IF ta > 3 * Scale THEN ta - 3 * Scale ELSE ta
    IN  IF 2 * tb < Scale THEN p + RoundDiv((q - p) * 2 * tb, Scale)
        ELSE IF 2 * tb < 3 * Scale THEN q
        ELSE IF tb < 2 * Scale THEN p + RoundDiv((q - p) * 2 * (2 * Scale - tb), Scale)
        ELSE p

\* Math.round(c * 255)
ToByte(c) == RoundDiv(c * 255, Scale)

\* hslToRgb(h, s, l) = [r, g, b]
HslToRgb(h, s, l) ==
    IF s = 0 THEN <<ToByte(l), ToByte(l), ToByte(l)>>
    ELSE LET q == IF 2 * l < Scale THEN FMul(l, Scale + s) ELSE l + s - FMul(l, s)
             p == 2 * l - q
         IN  <<ToByte(Hue2Rgb(p, q, 3 * h + Scale)),
               ToByte(Hue2Rgb(p, q, 3 * h)),
               ToByte(Hue2Rgb(p, q, 3 * h - Scale))>>

\* Hue without the + 360
Hue_NoOffset(angle) == JsMod(RoundDiv(angle * 180 * Scale, PI), Fix(360))

\* hue = (angle * 180 / Math.PI + 360) % 360, in units of a degree / Scale
Hue(angle) == JsMod(RoundDiv(angle * 180 * Scale, PI) + Fix(360), Fix(360))

\* lightness = Math.min(1.0, mag) * 50, in units of a percent / Scale
Lightness(mag) == Min(Scale, mag) * 50

\* [r, g, b, 255] of a cell: mag = Math.sqrt(u * u + v * v), then the hue
\* and the lightness
CellColour(re, im) ==
    LET mag == SqrtOfSum(re * re + im * im)
        rgb == HslToRgb(RoundDiv(Hue(Atan2(im, re)), 360), Scale,
                        RoundDiv(Lightness(mag), 100))
    IN  <<rgb[1], rgb[2], rgb[3], 255>>

\* the ImageData bytes after draw's loop over i < this.u.length
DrawPixels(data, au, av) ==
    LET colours == [i \in DOMAIN au |-> CellColour(au[i], av[i])]
        len == Length(au)
    IN  [k \in DOMAIN data |->
            IF k \div 4 < len THEN colours[k \div 4][(k % 4) + 1]
            ELSE data[k]]

\* ------------------------------------------------------------------------
\* Construction
\* ------------------------------------------------------------------------

\* ctx.drawImage has not drawn since the canvas was last sized
Blank == [image |-> <<>>, smoothing |-> FALSE]

\* The heap after setupCanvas allocated four arrays of total cells at the
\* fresh addresses and initializeGrid filled the first two; the arrays that
\* were live before are dropped.
AllocatedHeap(live, total, seed) ==
    LET newU == FreshAddress(live, 1)
        newV == FreshAddress(live, 2)
        newNext == {FreshAddress(live, 3), FreshAddress(live, 4)}
    IN  [a \in Addresses |->
            IF a = newU THEN SeedU(NewArray(total), seed)
            ELSE IF a = newV THEN SeedV(NewArray(total), seed)
            ELSE IF a \in newNext THEN NewArray(total)
            ELSE NewArray(0)]

\* The constructor's arrays of size 0 sit at addresses 1..4.
ConstructorArrays == {1, 2, 3, 4}

\* The fields other than the arrays' contents as the constructor leaves them
\* when it reaches its last statement, this.animate(): setupCanvas has run
\* for a container of size <<cw, ch>> with cell size target.
Constructed(cw, ch, target) ==
    /\ pc = "ctor"
    /\ loopI = 0
    /\ frameRequested = FALSE
    /\ canvasWidth = cw
    /\ canvasHeight = ch
    /\ targetCellSize = target
    /\ gridSizeX = GridSize(cw, target)
    /\ gridSizeY = GridSize(ch, target)
    /\ cellWidth = CellSize(cw, GridSize(cw, target))
    /\ cellHeight = CellSize(ch, GridSize(ch, target))
    /\ offscreenImageData = CreateImageData(GridSize(cw, target), GridSize(ch, target))
    /\ display = Blank
    /\ u = FreshAddress(ConstructorArrays, 1)
    /\ v = FreshAddress(ConstructorArrays, 2)
    /\ uNext = FreshAddress(ConstructorArrays, 3)
    /\ vNext = FreshAddress(ConstructorArrays, 4)
    /\ smoothRendering = FALSE
    /\ hasShownEpilepsyWarning = FALSE
    /\ frameCount = 0
    /\ isPaused = FALSE
    /\ simulationSpeed = 1
    /\ noiseLevel = 0
    /\ isMouseDownOnCanvas = FALSE
    /\ lastSpawnPos = <<0, 0>>
    /\ nextWinding = 1
    /\ isDraggingPanel = FALSE
    /\ modalHidden = TRUE
    /\ alerts = 0
    /\ last = [handler |-> "constructor", calls |-> <<"setupCanvas", "initializeGrid">>]
    /\ imprints = <<>>
    /\ nEvents = 0
    /\ tickCount = 0
    /\ pointerAt = NoCoords

\* no cell value is being followed
NoProbe == [stage |-> "none"]

\* targetCellSize's initial value
DefaultCellSize == 12

Init ==
    /\ \E size \in InitialContainerSizes, seed \in RandSeeds :
           /\ Constructed(size[1], size[2], DefaultCellSize)
           /\ heap = AllocatedHeap(ConstructorArrays,
                                   GridSize(size[1], DefaultCellSize)
                                   * GridSize(size[2], DefaultCellSize), seed)
    /\ input = [kind |-> "seed"]
    /\ probe = NoProbe

\* ------------------------------------------------------------------------
\* Groups of variables a handler leaves alone
\* ------------------------------------------------------------------------

geometry == <<canvasWidth, canvasHeight, gridSizeX, gridSizeY, cellWidth,
              cellHeight, targetCellSize>>

arrays == <<heap, u, v, uNext, vNext>>

rendering == <<offscreenImageData, display>>

parameters == <<simulationSpeed, noiseLevel, smoothRendering>>

pointer == <<isMouseDownOnCanvas, lastSpawnPos, isDraggingPanel,
             hasShownEpilepsyWarning, alerts, pointerAt>>

injection == <<nextWinding, imprints>>

pause == <<isPaused, modalHidden>>

loop == <<pc, loopI, frameRequested, frameCount, tickCount>>

\* ------------------------------------------------------------------------
\* The operations of the class, as parts of actions
\* ------------------------------------------------------------------------

\* setupCanvas() for a container of cw x ch pixels and cell size target.
\* The canvas and the grid are sized first; then createImageData either
\* throws, and the colour buffer and the four arrays stay as they were, or
\* returns, and the arrays are allocated and initializeGrid() is called.
SetupCanvas(cw, ch, target, seed) ==
    LET live == {u, v, uNext, vNext}
        gx == GridSize(cw, target)
        gy == GridSize(ch, target)
    IN  /\ canvasWidth' = cw
        /\ canvasHeight' = ch
        /\ gridSizeX' = gx
        /\ gridSizeY' = gy
        /\ cellWidth' = CellSize(cw, gx)
        /\ cellHeight' = CellSize(ch, gy)
        /\ display' = Blank
        /\ IF CreateImageDataThrows(gx, gy)
           THEN UNCHANGED <<offscreenImageData, heap, u, v, uNext, vNext>>
           ELSE /\ offscreenImageData' = CreateImageData(gx, gy)
                /\ heap' = AllocatedHeap(live, gx * gy, seed)
                /\ u' = FreshAddress(live, 1)
                /\ v' = FreshAddress(live, 2)
                /\ uNext' = FreshAddress(live, 3)
                /\ vNext' = FreshAddress(live, 4)

\* the calls a handler that calls setupCanvas() makes: initializeGrid is
\* reached only when createImageData returns
SetupCanvasCalls(cw, ch, target) ==
    IF CreateImageDataThrows(GridSize(cw, target), GridSize(ch, target))
    THEN <<"setupCanvas">>
    ELSE <<"setupCanvas", "initializeGrid">>

\* initializeGrid(): rewrites the contents of this.u and this.v
InitializeGrid(seed) ==
    /\ heap' = [heap EXCEPT ![u] = SeedU(heap[u], seed),
                            ![v] = SeedV(heap[v], seed)]
    /\ UNCHANGED <<u, v, uNext, vNext>>

\* imprintSingleVortex(cx, cy, winding): rewrites this.u and this.v in place
ImprintSingleVortex(cx, cy, winding) ==
    LET cells == Imprinted(heap[u], heap[v], cx, cy, winding, gridSizeX, gridSizeY)
    IN  /\ heap' = [heap EXCEPT ![u] = [i \in DOMAIN heap[u] |-> cells[i][1]],
                                ![v] = [i \in DOMAIN heap[v] |-> cells[i][2]]]
        /\ imprints' = Append(imprints, <<cx, cy, winding>>)
        /\ UNCHANGED <<u, v, uNext, vNext>>

\* cx = screenX / this.cellWidth, in units; NaN when cellWidth is NaN
GridCoordinate(screen, cell) ==
    IF cell = NaN THEN NaN ELSE RoundDiv(screen * Scale * Scale, cell)

\* Toggled without the sign flip
Toggled_Stuck(winding) == winding

\* nextWinding *= -1
Toggled(winding) == winding * (-1)

\* spawnVortex(screenX, screenY)
SpawnVortex(screenX, screenY) ==
    /\ ImprintSingleVortex(GridCoordinate(screenX, cellWidth),
                           GridCoordinate(screenY, cellHeight), nextWinding)
    /\ nextWinding' = Toggled(nextWinding)

\* the buffer exchange at the end of updatePhysics: what `this.u` (or v)
\* and `this.uNext` (or vNext) refer to afterwards
SwappedCurrent(current, next) == next

SwappedNext(current, next) == current

\* updatePhysics(), the noise pass drawing from stream seed
UpdatePhysics(seed) ==
    LET size == gridSizeX * gridSizeY
        cu == Noised(heap[u], noiseLevel, seed, 0, size)
        cv == Noised(heap[v], noiseLevel, seed, 1, size)
    IN  /\ heap' = [heap EXCEPT
                       ![u] = cu,
                       ![v] = cv,
                       ![uNext] = NextU(cu, cv, heap[uNext], gridSizeX, gridSizeY),
                       ![vNext] = NextV(cu, cv, heap[vNext], gridSizeX, gridSizeY)]
        /\ u' = SwappedCurrent(u, uNext)
        /\ uNext' = SwappedNext(u, uNext)
        /\ v' = SwappedCurrent(v, vNext)
        /\ vNext' = SwappedNext(v, vNext)

\* ctx.drawImage(offscreenCanvas, ...) throws an InvalidStateError when the
\* offscreen canvas (gridSizeX x gridSizeY pixels) has a zero side
DrawImageThrows == gridSizeX = 0 \/ gridSizeY = 0

\* Draw with the colour bytes halved when smoothing is on
Draw_SmoothDims(smooth) ==
    /\ offscreenImageData' =
           [k \in DOMAIN offscreenImageData |->
               IF smooth
               THEN DrawPixels(offscreenImageData, heap[u], heap[v])[k] \div 2
               ELSE DrawPixels(offscreenImageData, heap[u], heap[v])[k]]
    /\ display' = IF DrawImageThrows THEN display
                  ELSE [image |-> offscreenImageData', smoothing |-> smooth]

\* draw() with this.smoothRendering = smooth.  offscreenImageData is never
\* null once the constructor has run, so the early return is not taken.
\* The loop over i < this.u.length writes the colour bytes; drawImage then
\* puts them on the main canvas, or throws and leaves the canvas as it was.
Draw(smooth) ==
    /\ offscreenImageData' = DrawPixels(offscreenImageData, heap[u], heap[v])
    /\ display' = IF DrawImageThrows THEN display
                  ELSE [image |-> offscreenImageData', smoothing |-> smooth]

\* Math.hypot(dx, dy) > r, for integers
HypotExceeds(dx, dy, r) == dx * dx + dy * dy > r * r

\* the drag threshold in pixels
DragThreshold == 30

\* ------------------------------------------------------------------------
\* The frame loop: animate()
\* ------------------------------------------------------------------------

\* AnimateRun without the test of isPaused
AnimateRun_IgnoresPause ==
    /\ pc \in {"ctor", "idle"}
    /\ pc = "idle" => frameRequested
    /\ tickCount < MaxTicks
    /\ pc' = "loop"
    /\ frameRequested' = FALSE
    /\ loopI' = 0
    /\ tickCount' = tickCount + 1
    /\ last' = [handler |-> "animate", calls |-> <<>>]
    /\ UNCHANGED <<geometry, arrays, rendering, parameters, pointer, injection,
                   pause, frameCount, nEvents, input, probe>>

\* animate() is entered (the constructor's call, or the frame callback that
\* was requested) while the simulation is not paused
AnimateRun ==
    /\ pc \in {"ctor", "idle"}
    /\ pc = "idle" => frameRequested
    /\ tickCount < MaxTicks
    /\ ~isPaused
    /\ pc' = "loop"
    /\ frameRequested' = FALSE
    /\ loopI' = 0
    /\ tickCount' = tickCount + 1
    /\ last' = [handler |-> "animate", calls |-> <<>>]
    /\ UNCHANGED <<geometry, arrays, rendering, parameters, pointer, injection,
                   pause, frameCount, nEvents, input, probe>>

\* animate() runs while paused: it only asks for the next frame
AnimateSkip ==
    /\ pc = "idle"
    /\ frameRequested
    /\ tickCount < MaxTicks
    /\ isPaused
    /\ tickCount' = tickCount + 1
    /\ last' = [handler |-> "animate", calls |-> <<>>]
    /\ UNCHANGED <<pc, loopI, frameRequested, geometry, arrays, rendering,
                   parameters, pointer, injection, pause, frameCount, nEvents,
                   input, probe>>

\* one iteration of for (i = 0; i < simulationSpeed; i++)
LoopStep ==
    /\ pc = "loop"
    /\ loopI < simulationSpeed
    /\ \E seed \in (IF noiseLevel > 0 THEN RandSeeds ELSE {0}) : UpdatePhysics(seed)
    /\ frameCount' = frameCount + 1
    /\ loopI' = loopI + 1
    /\ last' = [handler |-> "animate", calls |-> <<"updatePhysics">>]
    /\ UNCHANGED <<pc, frameRequested, tickCount, geometry, rendering,
                   parameters, pointer, injection, pause, nEvents, input, probe>>

\* DrawFrame taken inside the loop, whatever i is
DrawFrame_InsideLoop ==
    /\ pc = "loop"
    /\ Draw(smoothRendering)
    /\ pc' = "idle"
    /\ frameRequested' = ~DrawImageThrows
    /\ last' = [handler |-> "animate", calls |-> <<"draw">>]
    /\ UNCHANGED <<loopI, frameCount, tickCount, geometry, arrays, parameters,
                   pointer, injection, pause, nEvents, input, probe>>

\* the loop is over: this.draw(), then requestAnimationFrame; when draw()
\* throws, animate() ends there and no frame is requested
DrawFrame ==
    /\ pc = "loop"
    /\ ~(loopI < simulationSpeed)
    /\ Draw(smoothRendering)
    /\ pc' = "idle"
    /\ frameRequested' = ~DrawImageThrows
    /\ last' = [handler |-> "animate", calls |-> <<"draw">>]
    /\ UNCHANGED <<loopI, frameCount, tickCount, geometry, arrays, parameters,
                   pointer, injection, pause, nEvents, input, probe>>

\* ------------------------------------------------------------------------
\* UI event handlers (setupEventListeners)
\* ------------------------------------------------------------------------

\* a handler other than animate starts: animate is not running
\* the number of UI events a run may take
EventBudget == IF input.kind = "drag" THEN MaxDragEvents ELSE MaxEvents

Handler(name, calls) ==
    /\ pc = "idle"
    /\ nEvents < EventBudget
    /\ nEvents' = nEvents + 1
    /\ last' = [handler |-> name, calls |-> calls]
    /\ UNCHANGED <<loop, input, probe>>

ResetClick ==
    /\ Handler("resetButton.click", <<"initializeGrid">>)
    /\ \E seed \in RandSeeds : InitializeGrid(seed)
    /\ UNCHANGED <<geometry, rendering, parameters, pointer, injection, pause>>

SpeedInput ==
    /\ Handler("speedSlider.input", <<>>)
    /\ \E val \in 1 .. MaxSpeed : simulationSpeed' = val
    /\ UNCHANGED <<geometry, arrays, rendering, noiseLevel, smoothRendering,
                   pointer, injection, pause>>

TempInput ==
    /\ Handler("tempSlider.input", <<>>)
    /\ \E val \in TempValues : noiseLevel' = RoundDiv(Fix(val), 100)
    /\ UNCHANGED <<geometry, arrays, rendering, simulationSpeed, smoothRendering,
                   pointer, injection, pause>>

ResolutionChange ==
    /\ \E val \in ResolutionValues, seed \in RandSeeds :
           /\ Handler("resolutionSlider.change",
                      SetupCanvasCalls(canvasWidth, canvasHeight, NewCellSize(val)))
           /\ targetCellSize' = NewCellSize(val)
           /\ SetupCanvas(canvasWidth, canvasHeight, NewCellSize(val), seed)
    /\ UNCHANGED <<parameters, pointer, injection, pause>>

SmoothToggle ==
    /\ Handler("smoothToggle.change", <<"draw">>)
    /\ \E checked \in BOOLEAN :
           /\ smoothRendering' = checked
           /\ Draw(checked)
    /\ UNCHANGED <<geometry, arrays, simulationSpeed, noiseLevel, pointer,
                   injection, pause>>

WindowResize ==
    /\ \E size \in ContainerSizes, seed \in RandSeeds :
           /\ Handler("window.resize",
                      SetupCanvasCalls(size[1], size[2], targetCellSize))
           /\ SetupCanvas(size[1], size[2], targetCellSize, seed)
    /\ UNCHANGED <<targetCellSize, parameters, pointer, injection, pause>>

\* canvas mousedown at coords (a MouseEvent always has coordinates)
MouseDown ==
    \E coords \in PointerPositions :
        IF ~isDraggingPanel
        THEN /\ Handler("canvas.mousedown", <<"spawnVortex", "imprintSingleVortex">>)
             /\ isMouseDownOnCanvas' = TRUE
             /\ SpawnVortex(coords[1], coords[2])
             /\ lastSpawnPos' = coords
             /\ pointerAt' = coords
             /\ UNCHANGED <<geometry, rendering, parameters, isDraggingPanel,
                            hasShownEpilepsyWarning, alerts, pause>>
        ELSE /\ Handler("canvas.mousedown", <<>>)
             /\ pointerAt' = coords
             /\ UNCHANGED <<geometry, arrays, rendering, parameters,
                            isMouseDownOnCanvas, lastSpawnPos, isDraggingPanel,
                            hasShownEpilepsyWarning, alerts, injection, pause>>

\* Move without the return after the alert: the warning move spawns too
Move_NoReturn(name, coords) ==
    IF /\ isMouseDownOnCanvas
       /\ coords # NoCoords
       /\ HypotExceeds(coords[1] - lastSpawnPos[1], coords[2] - lastSpawnPos[2],
                       DragThreshold)
    THEN IF ~hasShownEpilepsyWarning
         THEN /\ Handler(name, <<"alert", "spawnVortex", "imprintSingleVortex">>)
              /\ hasShownEpilepsyWarning' = TRUE
              /\ isMouseDownOnCanvas' = FALSE
              /\ alerts' = alerts + 1
              /\ pointerAt' = coords
              /\ SpawnVortex(coords[1], coords[2])
              /\ lastSpawnPos' = coords
              /\ UNCHANGED <<geometry, rendering, parameters, isDraggingPanel,
                             pause>>
         ELSE /\ Handler(name, <<"spawnVortex", "imprintSingleVortex">>)
              /\ SpawnVortex(coords[1], coords[2])
              /\ lastSpawnPos' = coords
              /\ pointerAt' = coords
              /\ UNCHANGED <<geometry, rendering, parameters, isMouseDownOnCanvas,
                             isDraggingPanel, hasShownEpilepsyWarning, alerts, pause>>
    ELSE /\ Handler(name, <<>>)
         /\ pointerAt' = coords
         /\ UNCHANGED <<geometry, arrays, rendering, parameters,
                        isMouseDownOnCanvas, lastSpawnPos, isDraggingPanel,
                        hasShownEpilepsyWarning, alerts, injection, pause>>

\* the body shared by canvas mousemove and touchmove, pointer at coords
Move(name, coords) ==
    IF /\ isMouseDownOnCanvas
       /\ coords # NoCoords
       /\ HypotExceeds(coords[1] - lastSpawnPos[1], coords[2] - lastSpawnPos[2],
                       DragThreshold)
    THEN IF ~hasShownEpilepsyWarning
         THEN /\ Handler(name, <<"alert">>)
              /\ hasShownEpilepsyWarning' = TRUE
              /\ isMouseDownOnCanvas' = FALSE
              /\ alerts' = alerts + 1
              /\ pointerAt' = coords
              /\ UNCHANGED <<geometry, arrays, rendering, parameters, lastSpawnPos,
                             isDraggingPanel, injection, pause>>
         ELSE /\ Handler(name, <<"spawnVortex", "imprintSingleVortex">>)
              /\ SpawnVortex(coords[1], coords[2])
              /\ lastSpawnPos' = coords
              /\ pointerAt' = coords
              /\ UNCHANGED <<geometry, rendering, parameters, isMouseDownOnCanvas,
                             isDraggingPanel, hasShownEpilepsyWarning, alerts, pause>>
    ELSE /\ Handler(name, <<>>)
         /\ pointerAt' = coords
         /\ UNCHANGED <<geometry, arrays, rendering, parameters,
                        isMouseDownOnCanvas, lastSpawnPos, isDraggingPanel,
                        hasShownEpilepsyWarning, alerts, injection, pause>>

MouseMove == \E coords \in PointerPositions : Move("canvas.mousemove", coords)

\* window mouseup: both listeners
MouseUp ==
    /\ Handler("window.mouseup", <<>>)
    /\ isMouseDownOnCanvas' = FALSE
    /\ isDraggingPanel' = FALSE
    /\ UNCHANGED <<geometry, arrays, rendering, parameters, lastSpawnPos,
                   hasShownEpilepsyWarning, alerts, pointerAt, injection, pause>>

\* canvas touchstart; coords is null when the event has no touches
TouchStart ==
    \E coords \in PointerPositions \cup {NoCoords} :
        IF coords # NoCoords
        THEN /\ Handler("canvas.touchstart", <<"spawnVortex", "imprintSingleVortex">>)
             /\ isMouseDownOnCanvas' = TRUE
             /\ SpawnVortex(coords[1], coords[2])
             /\ lastSpawnPos' = coords
             /\ pointerAt' = coords
             /\ UNCHANGED <<geometry, rendering, parameters, isDraggingPanel,
                            hasShownEpilepsyWarning, alerts, pause>>
        ELSE /\ Handler("canvas.touchstart", <<>>)
             /\ pointerAt' = coords
             /\ UNCHANGED <<geometry, arrays, rendering, parameters,
                            isMouseDownOnCanvas, lastSpawnPos, isDraggingPanel,
                            hasShownEpilepsyWarning, alerts, injection, pause>>

TouchMove ==
    \E coords \in PointerPositions \cup {NoCoords} : Move("canvas.touchmove", coords)

TouchEnd ==
    /\ Handler("window.touchend", <<>>)
    /\ isMouseDownOnCanvas' = FALSE
    /\ UNCHANGED <<geometry, arrays, rendering, parameters, lastSpawnPos,
                   isDraggingPanel, hasShownEpilepsyWarning, alerts, pointerAt,
                   injection, pause>>

\* controlsPanel mousedown on the panel itself, in a window wider than 600
PanelMouseDown ==
    /\ Handler("controlsPanel.mousedown", <<>>)
    /\ isDraggingPanel' = TRUE
    /\ UNCHANGED <<geometry, arrays, rendering, parameters, isMouseDownOnCanvas,
                   lastSpawnPos, hasShownEpilepsyWarning, alerts, pointerAt,
                   injection, pause>>

InfoClick ==
    /\ Handler("infoButton.click", <<>>)
    /\ modalHidden' = FALSE
    /\ isPaused' = TRUE
    /\ UNCHANGED <<geometry, arrays, rendering, parameters, pointer, injection>>

CloseModal ==
    /\ Handler("closeModal", <<>>)
    /\ modalHidden' = TRUE
    /\ isPaused' = FALSE
    /\ UNCHANGED <<geometry, arrays, rendering, parameters, pointer, injection>>

\* ------------------------------------------------------------------------
\* The program
\* ------------------------------------------------------------------------

Next ==
    \/ AnimateRun
    \/ AnimateSkip
    \/ LoopStep
    \/ DrawFrame
    \/ ResetClick
    \/ SpeedInput
    \/ TempInput
    \/ ResolutionChange
    \/ SmoothToggle
    \/ WindowResize
    \/ MouseDown
    \/ MouseMove
    \/ MouseUp
    \/ TouchStart
    \/ TouchMove
    \/ TouchEnd
    \/ PanelMouseDown
    \/ InfoClick
    \/ CloseModal

Spec == Init /\ [][Next]_vars

\* ------------------------------------------------------------------------
\* The solver and the injector on given fields
\*
\* The program seeds its field at random.  To state what updatePhysics and
\* imprintSingleVortex do to a particular field (a uniform field, a field
\* with one nonzero cell), the specifications below start the constructed
\* program with that field in place of the seeded one.  SolverSpec runs the
\* frame loop on it, at any speed; InjectorSpec runs the frame loop and
\* calls imprintSingleVortex between frames with centres of its choice.
\* ------------------------------------------------------------------------

\* containers and cell sizes giving grids of 4x4, 3x2, 2x1 and 1x1 cells
FieldGrids == {<<40, 40, 12>>, <<40, 24, 18>>, <<40, 24, 24>>, <<20, 20, 24>>}

\* cell values of magnitude exactly 1
UnitPhases == {<<1000, 0>>, <<0, -1000>>, <<-600, 800>>, <<280, -960>>}

\* values of the one nonzero cell
SingleValues == {<<1000, 0>>, <<-500, 150>>}

\* centres (cx, cy) handed to imprintSingleVortex, in units: on the grid,
\* beyond it, and below minus the grid's extent
ImprintCentres == {<<2000, 2000>>, <<4500, 5500>>, <<-7500, -6500>>}

\* the field of an input: every cell the same, or one nonzero cell
InputU(in, total) ==
    [i \in 0 .. total - 1 |->
        IF in.kind = "uniform" \/ i = in.cell THEN in.re ELSE 0]

InputV(in, total) ==
    [i \in 0 .. total - 1 |->
        IF in.kind = "uniform" \/ i = in.cell THEN in.im ELSE 0]

\* the heap of the constructed program with the input's field in u and v
FieldHeap(in, total) ==
    [a \in Addresses |->
        IF a = FreshAddress(ConstructorArrays, 1) THEN InputU(in, total)
        ELSE IF a = FreshAddress(ConstructorArrays, 2) THEN InputV(in, total)
        ELSE IF a \in {FreshAddress(ConstructorArrays, 3),
                       FreshAddress(ConstructorArrays, 4)}
             THEN NewArray(total)
        ELSE NewArray(0)]

UniformInputs ==
    {[kind |-> "uniform", cell |-> 0, re |-> p[1], im |-> p[2]] : p \in UnitPhases}

SingleInputs(total) ==
    {[kind |-> "single", cell |-> c, re |-> p[1], im |-> p[2]] :
        c \in 0 .. total - 1, p \in SingleValues}

\* the constructed program on grid g with the field of an input among ins
FieldInit(g, ins) ==
    /\ Constructed(g[1], g[2], g[3])
    /\ input \in ins
    /\ probe = NoProbe
    /\ heap = FieldHeap(input, GridSize(g[1], g[3]) * GridSize(g[2], g[3]))

SolverInit ==
    \E g \in FieldGrids :
        FieldInit(g, UniformInputs
                     \cup SingleInputs(GridSize(g[1], g[3]) * GridSize(g[2], g[3])))

SolverNext ==
    \/ AnimateRun
    \/ LoopStep
    \/ DrawFrame
    \/ SpeedInput

SolverSpec == SolverInit /\ [][SolverNext]_vars

InjectorInit == \E g \in FieldGrids : FieldInit(g, UniformInputs)

\* a direct call imprintSingleVortex(cx, cy, winding) between two frames
ImprintCall ==
    /\ Handler("imprintSingleVortex", <<"imprintSingleVortex">>)
    /\ \E c \in ImprintCentres, winding \in {1, -1} :
           ImprintSingleVortex(c[1], c[2], winding)
    /\ UNCHANGED <<geometry, rendering, parameters, pointer, nextWinding, pause>>

InjectorNext ==
    \/ AnimateRun
    \/ LoopStep
    \/ DrawFrame
    \/ ImprintCall

InjectorSpec == InjectorInit /\ [][InjectorNext]_vars

\* ------------------------------------------------------------------------
\* The hue of one cell.  draw reads a cell's (u, v) from the Float32Arrays,
\* which hold signed zeros, takes angle = Math.atan2(v, u) and maps it to a
\* hue.  HueSpec follows one cell value through these two statements.
\* ------------------------------------------------------------------------

\* components of the cell values followed
ProbeValues == {-1000, -600, -1, 0, 1, 280, 800, 1000}

\* a cell value: re and im in units; negZeroRe (negZeroIm) says that a zero
\* re (im) is the float -0
ProbeCells ==
    {c \in [re : ProbeValues, im : ProbeValues,
            negZeroRe : BOOLEAN, negZeroIm : BOOLEAN] :
        /\ c.negZeroRe => c.re = 0
        /\ c.negZeroIm => c.im = 0}

\* Math.atan2(y, x) with signed zeros: negY (negX) says that y (x) is -0.
\* atan2(+0, x) is +pi and atan2(-0, x) is -pi for x < 0 and for x = -0;
\* atan2(+-0, x) is +-0 for x > 0 and for x = +0.
Atan2Signed(y, negY, x, negX) ==
    IF y = 0 /\ (x < 0 \/ (x = 0 /\ negX))
    THEN IF negY THEN -PI ELSE PI
    ELSE Atan2(y, x)

HueInit ==
    /\ \E size \in InitialContainerSizes, seed \in RandSeeds :
           /\ Constructed(size[1], size[2], DefaultCellSize)
           /\ heap = AllocatedHeap(ConstructorArrays,
                                   GridSize(size[1], DefaultCellSize)
                                   * GridSize(size[2], DefaultCellSize), seed)
    /\ input = [kind |-> "seed"]
    /\ \E c \in ProbeCells : probe = [stage |-> "cell", cell |-> c]

\* const angle = Math.atan2(v, u)
ProbeAngle ==
    /\ probe.stage = "cell"
    /\ probe' = [stage |-> "angle", cell |-> probe.cell,
                 angle |-> Atan2Signed(probe.cell.im, probe.cell.negZeroIm,
                                       probe.cell.re, probe.cell.negZeroRe)]
    /\ UNCHANGED <<geometry, arrays, rendering, parameters, pointer, injection,
                   pause, loop, last, nEvents, input>>

\* let hue = (angle * 180 / Math.PI + 360) % 360
ProbeHue ==
    /\ probe.stage = "angle"
    /\ probe' = [stage |-> "hue", cell |-> probe.cell, angle |-> probe.angle,
                 hue |-> Hue(probe.angle)]
    /\ UNCHANGED <<geometry, arrays, rendering, parameters, pointer, injection,
                   pause, loop, last, nEvents, input>>

HueNext ==
    \/ ProbeAngle
    \/ ProbeHue

HueSpec == HueInit /\ [][HueNext]_vars

\* ------------------------------------------------------------------------
\* The pointer handlers alone: presses, moves and releases of the mouse and
\* of touches on the canvas of the constructed program, between its frames.
\* ------------------------------------------------------------------------

\* the container of the pointer runs: 40 x 40 pixels
DragContainer == <<40, 40>>

\* where the pointer moves to: the positions of the presses and a point
\* less than 30 pixels from each of them
DragPositions == PointerPositions \cup {<<20, 20>>}

PointerInit ==
    /\ \E seed \in RandSeeds :
           /\ Constructed(DragContainer[1], DragContainer[2], DefaultCellSize)
           /\ heap = AllocatedHeap(ConstructorArrays,
                                   GridSize(DragContainer[1], DefaultCellSize)
                                   * GridSize(DragContainer[2], DefaultCellSize), seed)
    /\ input = [kind |-> "drag"]
    /\ probe = NoProbe

DragMouseMove == \E coords \in DragPositions : Move("canvas.mousemove", coords)

DragTouchMove ==
    \E coords \in DragPositions \cup {NoCoords} : Move("canvas.touchmove", coords)

PointerNext ==
    \/ AnimateRun
    \/ LoopStep
    \/ DrawFrame
    \/ MouseDown
    \/ DragMouseMove
    \/ MouseUp
    \/ TouchStart
    \/ DragTouchMove
    \/ TouchEnd

PointerSpec == PointerInit /\ [][PointerNext]_vars

\* ------------------------------------------------------------------------
\* Properties
\* ------------------------------------------------------------------------

\* the calls the handler of a transition made
Calls(l) == {l.calls[k] : k \in DOMAIN l.calls}

\* the transition is one call of updatePhysics
IsStep == last'.calls = <<"updatePhysics">>

\* the transition is the draw() that ends a frame
IsFrameDraw == last'.handler = "animate" /\ last'.calls = <<"draw">>

\* the operations that write the field
FieldWriters == {"updatePhysics", "initializeGrid", "imprintSingleVortex", "setupCanvas"}

Cells == 0 .. gridSizeX * gridSizeY - 1

\* C1 as stated: in every updatePhysics, whatever noiseLevel is, nothing is
\* written to the current arrays, every value written to the next arrays is
\* the solver's value on the pre-step current arrays, and the references are
\* exchanged.
C1_NoWriteToCurrent ==
    [][IsStep =>
        /\ heap'[u] = heap[u]
        /\ heap'[v] = heap[v]
        /\ \A i \in Cells :
               /\ heap'[uNext][i] = SolveU(heap[u], heap[v], i, gridSizeX, gridSizeY)
               /\ heap'[vNext][i] = SolveV(heap[u], heap[v], i, gridSizeX, gridSizeY)
        /\ u' = uNext /\ uNext' = u /\ v' = vNext /\ vNext' = v]_vars

\* C1 amended: in every updatePhysics the references are exchanged (after
\* the step u, v are the objects that were uNext, vNext and the reverse) and
\* no other array changes; the values the step stored are the solver's values
\* on the arrays that were current, as they are after the noise pass; with
\* noiseLevel = 0 nothing is written to the arrays that were current, and
\* with noiseLevel > 0 the only writes to them are those of the noise pass:
\* each cell moves by at most noiseLevel * 0.1 / 2.
C1_BufferDiscipline ==
    [][IsStep =>
        /\ u' = uNext /\ uNext' = u /\ v' = vNext /\ vNext' = v
        /\ \A a \in Addresses \ {u, v, uNext, vNext} : heap'[a] = heap[a]
        /\ DOMAIN heap'[u] = DOMAIN heap[u] /\ DOMAIN heap'[v] = DOMAIN heap[v]
        /\ \A i \in Cells :
               /\ heap'[uNext][i] = SolveU(heap'[u], heap'[v], i, gridSizeX, gridSizeY)
               /\ heap'[vNext][i] = SolveV(heap'[u], heap'[v], i, gridSizeX, gridSizeY)
               /\ 2 * Abs(heap'[u][i] - heap[u][i]) <= FMul(noiseLevel, 100)
               /\ 2 * Abs(heap'[v][i] - heap[v][i]) <= FMul(noiseLevel, 100)]_vars

\* the second step has run, with noise on: its noise pass wrote to the
\* arrays that were current (now uNext, vNext)
C1_Witness ==
    /\ last.calls = <<"updatePhysics">>
    /\ noiseLevel > 0
    /\ frameCount = 2
    /\ heap[u] # heap[uNext]

\* C2 as stated: in every state after the constructor, whatever steps,
\* imprints, resets, resizes and resolution changes were made, the four
\* arrays are four objects of gridSizeX * gridSizeY cells each and the colour
\* buffer has 4 * gridSizeX * gridSizeY bytes.
C2_BufferShape ==
    /\ \A a \in {u, v, uNext, vNext} : DOMAIN heap[a] = 0 .. gridSizeX * gridSizeY - 1
    /\ DOMAIN offscreenImageData = 0 .. 4 * gridSizeX * gridSizeY - 1
    /\ Cardinality({u, v, uNext, vNext}) = 4

\* the window was resized while the container was 0 x 0: setupCanvas set
\* the grid to 0 x 0 cells and stopped at createImageData, and the arrays and
\* the colour buffer are still those of the 4 x 4 grid
C2_Witness ==
    /\ last = [handler |-> "window.resize", calls |-> <<"setupCanvas">>]
    /\ gridSizeX = 0 /\ gridSizeY = 0
    /\ \A a \in {u, v, uNext, vNext} : Length(heap[a]) = 16
    /\ Length(offscreenImageData) = 64

\* C3: a frame that runs makes exactly simulationSpeed calls of
\* updatePhysics, each while the loop is running, and then its one draw;
\* nothing else runs inside a frame; no step runs outside a frame; and only
\* updatePhysics, initializeGrid, imprintSingleVortex and setupCanvas change
\* the field, so each step reads what the step before it stored.
C3_StepsThenDraw ==
    [][/\ (pc # "loop" /\ pc' = "loop") => (loopI' = 0 /\ arrays' = arrays)
       /\ IsStep => /\ pc = "loop" /\ pc' = "loop"
                    /\ loopI < simulationSpeed
                    /\ loopI' = loopI + 1
                    /\ frameCount' = frameCount + 1
       /\ IsFrameDraw => /\ pc = "loop" /\ pc' = "idle"
                         /\ loopI = simulationSpeed
                         /\ arrays' = arrays
       /\ pc = "loop" => /\ IsStep \/ IsFrameDraw
                         /\ simulationSpeed' = simulationSpeed
       /\ Calls(last') \cap FieldWriters = {} => arrays' = arrays]_vars

\* the second frame has ended, at two steps a frame, after a first at one
C3_Witness ==
    /\ pc = "idle"
    /\ last = [handler |-> "animate", calls |-> <<"draw">>]
    /\ simulationSpeed = 2
    /\ loopI = 2
    /\ frameCount = 3

\* C4 as stated: while paused no updatePhysics and no draw runs, whatever
\* handler does.
C4_NoStepNoDrawWhilePaused ==
    [][isPaused => Calls(last') \cap {"updatePhysics", "draw"} = {}]_vars

\* C4 amended: while paused no updatePhysics runs and the frame loop draws
\* nothing (the only draw is the one the smooth toggle's handler makes);
\* a frame callback leaves the arrays, the colour buffer and frameCount
\* unchanged; and unless a handler seeds, imprints or reallocates, the field
\* at resume is the field at the moment of pausing.
C4_PauseGatesTheLoop ==
    /\ [](isPaused => pc = "idle")
    /\ [][isPaused =>
            /\ "updatePhysics" \notin Calls(last')
            /\ "draw" \in Calls(last') => last'.handler = "smoothToggle.change"
            /\ frameCount' = frameCount
            /\ pc' = "idle"
            /\ last'.handler = "animate" =>
                   /\ arrays' = arrays
                   /\ rendering' = rendering
                   /\ Calls(last') = {}
            /\ Calls(last') \cap FieldWriters = {} => arrays' = arrays]_vars

\* a frame callback has run while paused
C4_Witness ==
    /\ isPaused
    /\ last.handler = "animate"
    /\ tickCount = 2
    /\ frameCount = 1

\* the winding of the k-th injection
WindingOf(k) == IF k % 2 = 1 THEN 1 ELSE -1

\* C5: nextWinding is +1 or -1, +1 before the first injection; the k-th
\* injection carries +1 for odd k and -1 for even k; spawnVortex flips
\* nextWinding once and nothing else changes it.
C5_WindingAlternates ==
    /\ [](/\ nextWinding \in {1, -1}
          /\ nextWinding = WindingOf(nImprints + 1)
          /\ \A k \in 1 .. nImprints : imprints[k][3] = WindingOf(k))
    /\ [][IF "spawnVortex" \in Calls(last')
          THEN /\ nextWinding' = -nextWinding
               /\ imprints' = Append(imprints, <<lastImprint'[1], lastImprint'[2], nextWinding>>)
          ELSE nextWinding' = nextWinding /\ imprints' = imprints]_vars

\* two injections have been made: the second carried -1 and the next is +1
C5_Witness ==
    /\ nImprints = 2
    /\ imprints[1][3] = 1
    /\ imprints[2][3] = -1
    /\ nextWinding = 1

\* C6: from a uniform field of magnitude 1, with noiseLevel = 0, after any
\* number of steps every cell still holds its initial (re, im), and the
\* Laplacian of u and of v and the reaction term are zero at every cell.
C6_UniformFixedPoint ==
    (input.kind = "uniform" /\ noiseLevel = 0) =>
        \A i \in Cells :
            /\ heap[u][i] = input.re
            /\ heap[v][i] = input.im
            /\ Laplacian(heap[u], i % gridSizeX, i \div gridSizeX, gridSizeX, gridSizeY) = 0
            /\ Laplacian(heap[v], i % gridSizeX, i \div gridSizeX, gridSizeX, gridSizeY) = 0
            /\ Reaction(heap[u][i], heap[v][i]) = 0

\* three steps have run on the 4x4 uniform field of phase (-0.6, 0.8)
C6_Witness ==
    /\ input.kind = "uniform"
    /\ input.re = -600
    /\ gridSizeX * gridSizeY = 16
    /\ frameCount = 3
    /\ last.calls = <<"updatePhysics">>

\* the cell index of (x, y)
CellAt(x, y) == y * gridSizeX + x

\* the cells the stencil of cell i reads beside i: left, right, up, down
Neighbours(i) ==
    LET x == i % gridSizeX
        y == i \div gridSizeX
    IN  <<LeftIndex(x, y, gridSizeX, gridSizeY), RightIndex(x, y, gridSizeX, gridSizeY),
          UpIndex(x, y, gridSizeX, gridSizeY), DownIndex(x, y, gridSizeX, gridSizeY)>>

\* how many of the four reads of cell n's stencil fall on cell c
ReadsOf(n, c) == Cardinality({k \in 1 .. 4 : Neighbours(n)[k] = c})

\* C7: on every grid, for every cell (x, y), the left neighbour is
\* (x - 1, y), or (width - 1, y) when x = 0; the right neighbour is
\* (x + 1, y), or (0, y) when x = width - 1; likewise up and down in y; no
\* neighbour index is outside 0 .. width * height - 1; and one step on a field
\* with a single nonzero cell makes each of its neighbours nonzero, the
\* wrapped ones included: every other cell n receives D * dt = 0.1 times the
\* value, once for each read of its stencil that falls on the nonzero cell.
C7_PeriodicNeighbours ==
    /\ \A x \in 0 .. gridSizeX - 1, y \in 0 .. gridSizeY - 1 :
           /\ Neighbours(CellAt(x, y))
                  = <<CellAt(IF x = 0 THEN gridSizeX - 1 ELSE x - 1, y),
                      CellAt(IF x = gridSizeX - 1 THEN 0 ELSE x + 1, y),
                      CellAt(x, IF y = 0 THEN gridSizeY - 1 ELSE y - 1),
                      CellAt(x, IF y = gridSizeY - 1 THEN 0 ELSE y + 1)>>
           /\ \A k \in 1 .. 4 : Neighbours(CellAt(x, y))[k] \in Cells
    /\ (input.kind = "single" /\ frameCount = 1) =>
           \A n \in Cells \ {input.cell} :
               /\ heap[u][n] = RoundDiv(ReadsOf(n, input.cell) * input.re, 10)
               /\ heap[v][n] = RoundDiv(ReadsOf(n, input.cell) * input.im, 10)
               /\ (\E k \in 1 .. 4 : Neighbours(input.cell)[k] = n)
                      => <<heap[u][n], heap[v][n]>> # <<0, 0>>

\* one step has run on the 4x4 grid whose only nonzero cell was (0, 0): the
\* cells (3, 0) and (0, 3) on the opposite edges are nonzero
C7_Witness ==
    /\ input.kind = "single"
    /\ input.cell = 0
    /\ gridSizeX = 4 /\ gridSizeY = 4
    /\ frameCount = 1
    /\ heap[u][3] # 0
    /\ heap[u][12] # 0

\* the displacement d along an axis of n cells is the minimal one from the
\* centre c to the cell x
MinimalOnTorus(d, x, c, n) ==
    /\ 2 * Abs(d) <= Fix(n)
    /\ (d - (Fix(x) - c)) % Fix(n) = 0

\* C8: for every centre (cx, cy) handed to imprintSingleVortex, negative
\* and beyond the grid included, the displacement (dx, dy) used for every
\* cell is the minimal vector on the torus (congruent to x - cx modulo the
\* width with |dx| <= width / 2, and so for y), and the imprint at the centre
\* moved by (+width, +height) or by (-width, -height) rewrites the field as
\* the imprint at (cx, cy) does.
C8_MinimalDisplacement ==
    (last.handler = "imprintSingleVortex" /\ nImprints = 1) =>
        LET cx == lastImprint[1]
            cy == lastImprint[2]
            au == InputU(input, gridSizeX * gridSizeY)
            av == InputV(input, gridSizeX * gridSizeY)
        IN  /\ \A x \in 0 .. gridSizeX - 1 :
                   MinimalOnTorus(Displacement(x, cx, gridSizeX), x, cx, gridSizeX)
            /\ \A y \in 0 .. gridSizeY - 1 :
                   MinimalOnTorus(Displacement(y, cy, gridSizeY), y, cy, gridSizeY)
            /\ \A s \in {1, -1} :
                   /\ heap[u] = ImprintU(au, av, cx + s * Fix(gridSizeX), cy + s * Fix(gridSizeY),
                                         lastImprint[3], gridSizeX, gridSizeY)
                   /\ heap[v] = ImprintV(au, av, cx + s * Fix(gridSizeX), cy + s * Fix(gridSizeY),
                                         lastImprint[3], gridSizeX, gridSizeY)

\* re * re + im * im
MagSq(re, im) == re * re + im * im

\* C9: on the 4x4 grid, after imprintSingleVortex(2, 2, +1), the centre
\* cell (2, 2) has at most 0.2 times its magnitude before the imprint, and
\* the cell (0, 0) has a magnitude within 5% of the one it had before.
C9_CoreDipFarFieldKept ==
    (/\ last.handler = "imprintSingleVortex"
     /\ gridSizeX = 4 /\ gridSizeY = 4
     /\ imprints = <<<<2000, 2000, 1>>>>) =>
        LET pre == MagSq(input.re, input.im)
            centre == MagSq(heap[u][10], heap[v][10])
            far == MagSq(heap[u][0], heap[v][0])
        IN  /\ 25 * centre <= pre
            /\ 361 * pre <= 400 * far
            /\ 400 * far <= 441 * pre

\* the cell holds the phase of the input cell (to 0.05 rad) and a magnitude
\* within 20% of it
RestoredCell(re, im) ==
    LET dot == re * input.re + im * input.im
        cross == re * input.im - im * input.re
    IN  /\ dot > 0
        /\ 20 * Abs(cross) <= dot
        /\ 16 * MagSq(input.re, input.im) <= 25 * MagSq(re, im)
        /\ 25 * MagSq(re, im) <= 36 * MagSq(input.re, input.im)

\* C10: on a uniform field, imprintSingleVortex(cx, cy, +1) followed, with
\* no step in between, by imprintSingleVortex(cx, cy, -1) returns every
\* cell to the phase it had and to a magnitude close to the one it had.
C10_DoubleToggleRestores ==
    (/\ last.handler = "imprintSingleVortex"
     /\ tickCount = 1
     /\ nImprints = 2
     /\ imprints[1][1] = imprints[2][1] /\ imprints[1][2] = imprints[2][2]
     /\ imprints[1][3] = 1 /\ imprints[2][3] = -1) =>
        \A i \in Cells : RestoredCell(heap[u][i], heap[v][i])

\* the transition is a call of initializeGrid alone (the reset button)
IsSeed == Calls(last') = {"initializeGrid"}

\* every cell of the current arrays has magnitude in [0.1, 0.2]
SeededField ==
    \A i \in DOMAIN heap[u] \cup DOMAIN heap[v] :
        /\ MagSq(heap[u][i], heap[v][i]) >= 100 * 100
        /\ MagSq(heap[u][i], heap[v][i]) <= 200 * 200

\* C11: whenever the reset button's handler runs, between two frames, paused
\* or not, it rewrites only the contents of u and v: the array
\* objects and their lengths, the grid, uNext and vNext, the parameters,
\* nextWinding, frameCount and the pause flag are unchanged; afterwards every
\* cell of u and v holds a seeded value of magnitude in [0.1, 0.2], so the
\* step after it reads seeded values only.
C11_SeedInPlace ==
    /\ [](last.handler = "resetButton.click" => SeededField)
    /\ [][IsSeed =>
            /\ last'.handler = "resetButton.click"
            /\ u' = u /\ v' = v /\ uNext' = uNext /\ vNext' = vNext
            /\ \A a \in Addresses \ {u, v} : heap'[a] = heap[a]
            /\ DOMAIN heap'[u] = DOMAIN heap[u]
            /\ DOMAIN heap'[v] = DOMAIN heap[v]
            /\ DOMAIN heap[v] = DOMAIN heap[u]
            /\ Cells \subseteq DOMAIN heap[u]
            /\ \E seed \in RandSeeds :
                   /\ heap'[u] = SeedU(heap[u], seed)
                   /\ heap'[v] = SeedV(heap[v], seed)
            /\ SeededField'
            /\ UNCHANGED <<geometry, parameters, injection, pause, frameCount,
                           rendering>>]_vars

\* the field has been seeded again while paused, after a step had run
C11_Witness ==
    /\ last.handler = "resetButton.click"
    /\ isPaused
    /\ frameCount = 1
    /\ SeededField

\* the transition called draw
IsDraw == "draw" \in Calls(last')

\* the colour bytes of the field (au, av) of n cells: r, g, b, 255 per cell
PixelsOf(au, av, n) ==
    LET colours == [i \in 0 .. n - 1 |-> CellColour(au[i], av[i])]
    IN  [k \in 0 .. 4 * n - 1 |-> colours[k \div 4][(k % 4) + 1]]

\* C12: draw changes none of u, v, uNext, vNext, simulationSpeed,
\* noiseLevel, nextWinding; the colour buffer after it is the colours of the
\* cells of the current (u, v), whatever the buffer held and whatever
\* smoothRendering is (the flag goes to the upscale only: what drawImage
\* puts on the canvas is that buffer, with the flag's smoothing, and when
\* drawImage throws the canvas stays as it was); a draw that follows a draw
\* leaves the buffer as it was; and no transition other than a draw or
\* setupCanvas changes the buffer.
C12_DrawIsPure ==
    [][/\ IsDraw =>
            /\ arrays' = arrays
            /\ simulationSpeed' = simulationSpeed
            /\ noiseLevel' = noiseLevel
            /\ nextWinding' = nextWinding
            /\ geometry' = geometry
            /\ offscreenImageData'
                   = PixelsOf(heap[u], heap[v], Length(heap[u]))
            /\ gridSizeX * gridSizeY # 0 =>
                   /\ Length(heap[u]) = gridSizeX * gridSizeY
                   /\ display' = [image |-> offscreenImageData',
                                  smoothing |-> smoothRendering']
            /\ gridSizeX * gridSizeY = 0 => display' = display
       /\ (IsDraw /\ "draw" \in Calls(last)) =>
              offscreenImageData' = offscreenImageData
       /\ Calls(last') \cap {"draw", "setupCanvas"} = {} =>
              offscreenImageData' = offscreenImageData]_vars

\* the smooth toggle has redrawn, with smoothing on, the field that the
\* frame's draw had drawn with smoothing off
C12_Witness ==
    /\ last.handler = "smoothToggle.change"
    /\ smoothRendering
    /\ display.smoothing
    /\ frameCount = 1
    /\ nEvents = 1
    /\ offscreenImageData = PixelsOf(heap[u], heap[v], gridSizeX * gridSizeY)

\* C13: the hue of every cell lies in [0, 360), and the phases -pi and +pi
\* both get the hue 180.
C13_HueWraps ==
    probe.stage = "hue" =>
        /\ probe.hue >= 0
        /\ probe.hue < Fix(360)
        /\ probe.angle \in {-PI, PI} => probe.hue = Fix(180)
        /\ probe.angle >= -PI /\ probe.angle <= PI

\* the hue of a cell (-1, -0), whose phase is -pi, has been computed
C13_Witness ==
    /\ probe.stage = "hue"
    /\ probe.cell.re = -1000
    /\ probe.cell.negZeroIm
    /\ probe.angle = -PI
    /\ probe.hue = Fix(180)

\* the transition is a move of the mouse or of a touch on the canvas
IsMove == last'.handler \in {"canvas.mousemove", "canvas.touchmove"}

\* the transition is a press of the mouse or of a touch on the canvas
IsPress == last'.handler \in {"canvas.mousedown", "canvas.touchstart"}

\* the transition called spawnVortex
Spawned == "spawnVortex" \in Calls(last')

\* the transition showed the warning
Warned == "alert" \in Calls(last')

\* the pointer is down and the event's position is more than 30 pixels from
\* lastSpawnPos
FarWhileDown ==
    /\ isMouseDownOnCanvas
    /\ pointerAt' # NoCoords
    /\ (pointerAt'[1] - lastSpawnPos[1]) * (pointerAt'[1] - lastSpawnPos[1])
       + (pointerAt'[2] - lastSpawnPos[2]) * (pointerAt'[2] - lastSpawnPos[2])
           > DragThreshold * DragThreshold

\* C14: the warning is shown at most once; it is shown by the first move
\* that is more than 30 pixels from lastSpawnPos while the pointer is down,
\* and that move spawns nothing, leaves the field, nextWinding and
\* lastSpawnPos unchanged and ends the drag; the pointer is down again only
\* after a press; a move spawns a vortex exactly when the pointer is down,
\* more than 30 pixels from lastSpawnPos and the warning has been shown, and
\* then lastSpawnPos is the move's position; any other move changes neither
\* the field nor nextWinding nor lastSpawnPos.
C14_DragThrottle ==
    /\ [](alerts = IF hasShownEpilepsyWarning THEN 1 ELSE 0)
    /\ [][/\ hasShownEpilepsyWarning => hasShownEpilepsyWarning'
          /\ Warned <=> (IsMove /\ FarWhileDown /\ ~hasShownEpilepsyWarning)
          /\ Warned =>
                 /\ ~Spawned
                 /\ arrays' = arrays
                 /\ injection' = injection
                 /\ lastSpawnPos' = lastSpawnPos
                 /\ ~isMouseDownOnCanvas'
                 /\ hasShownEpilepsyWarning'
                 /\ alerts' = alerts + 1
          /\ IsMove => (Spawned <=> (FarWhileDown /\ hasShownEpilepsyWarning))
          /\ (IsMove /\ Spawned) =>
                 /\ lastSpawnPos' = pointerAt'
                 /\ isMouseDownOnCanvas'
                 /\ nextWinding' = -nextWinding
                 /\ imprints' = Append(imprints,
                        <<GridCoordinate(pointerAt'[1], cellWidth),
                          GridCoordinate(pointerAt'[2], cellHeight), nextWinding>>)
          /\ (IsMove /\ ~Spawned) =>
                 /\ arrays' = arrays
                 /\ injection' = injection
                 /\ lastSpawnPos' = lastSpawnPos
          /\ (~isMouseDownOnCanvas /\ isMouseDownOnCanvas') => (IsPress /\ Spawned)
         ]_vars

\* press, far move (the warning), press, far move: the last move spawned the
\* third vortex and no second warning was shown
C14_Witness ==
    /\ last.handler = "canvas.touchmove"
    /\ "spawnVortex" \in Calls(last)
    /\ alerts = 1
    /\ hasShownEpilepsyWarning
    /\ nImprints = 3
    /\ lastSpawnPos = pointerAt

=============================================================================
